---- MODULE Spec2Model ----
(***************************************************************************)
(* Model of the two haste framework adapters:                              *)
(*   frameworks/pytorch/indrnn.py  (IndRNNScript, IndRNNFunction, IndRNN)  *)
(*   frameworks/tf/gru.py          (gru_gradient, GRULayer)                *)
(* Tensors are records [shape, val, is_cuda]; val maps 0-based index       *)
(* tuples to integers.  Tensors that only pass through the TensorFlow      *)
(* graph to the native op are symbolic records [name, shape, axes].        *)
(***************************************************************************)
EXTENDS Integers, Sequences, FiniteSets, TLC

\* ------------------------------------------------------------------ bounds
\* longest input sequence enumerated
MaxTime == 2
\* largest batch enumerated
MaxBatch == 2
\* input_size of the layers enumerated
InputSize == 2
\* hidden_size / num_units of the layers enumerated
HiddenSize == 2
\* saturation level of the integer model of tanh
TanhBound == 2
\* fixed-point denominator of zoneout rates and uniform draws
UnitScale == 2

\* ------------------------------------------------------------ tensor basics
None == [none |-> TRUE]

MaxDim(shape) == IF Len(shape) = 0 THEN 0
                 ELSE CHOOSE m \in {shape[k] : k \in 1..Len(shape)} :
                        \A k \in 1..Len(shape) : shape[k] <= m

\* all 0-based index tuples of a tensor of the given shape
Indices(shape) ==
  {idx \in [1..Len(shape) -> 0..(MaxDim(shape) - 1)] :
     \A k \in 1..Len(shape) : idx[k] < shape[k]}

Tensor(shape, val, cuda) == [shape |-> shape, val |-> val, is_cuda |-> cuda]

\* the seed-th value pattern of a shape, entries in lo..hi
Pattern(shape, seed, lo, hi, cuda) ==
  LET RECURSIVE Mix(_, _)
      Mix(idx, k) == IF k = 0 THEN seed
                     ELSE Mix(idx, k - 1) + (2 * k - 1 + seed) * idx[k]
  IN  Tensor(shape,
             [idx \in Indices(shape) |-> lo + (Mix(idx, Len(shape)) % (hi - lo + 1))],
             cuda)

\* the value patterns enumerated per tensor
Seeds == {0, 1}

\* torch.zeros(shape, device=...)
Zeros(shape, cuda) == Tensor(shape, [idx \in Indices(shape) |-> 0], cuda)

\* tensor.permute(perm) with a 0-based perm: result dim k is source dim perm[k]
Permute(x, perm) ==
  LET n == Len(perm)
      shape == [k \in 1..n |-> x.shape[perm[k] + 1]]
      src(idx) == [d \in 1..n |-> idx[CHOOSE k \in 1..n : perm[k] + 1 = d]]
  IN  Tensor(shape, [idx \in Indices(shape) |-> x.val[src(idx)]], x.is_cuda)

\* x[i] for a 0-based, non-negative i: drops the leading dimension
Index0(x, i) ==
  LET shape == Tail(x.shape)
  IN  Tensor(shape, [idx \in Indices(shape) |-> x.val[<<i>> \o idx]], x.is_cuda)

\* x.unsqueeze(0)
Unsqueeze0(x) ==
  LET shape == <<1>> \o x.shape
  IN  Tensor(shape, [idx \in Indices(shape) |-> x.val[Tail(idx)]], x.is_cuda)

\* x[1:]
SliceFrom1(x) ==
  LET n == x.shape[1]
      shape == <<(IF n = 0 THEN 0 ELSE n - 1)>> \o Tail(x.shape)
  IN  Tensor(shape,
             [idx \in Indices(shape) |-> x.val[<<idx[1] + 1>> \o Tail(idx)]],
             x.is_cuda)

\* torch.stack(list) of a non-empty list of equally shaped tensors
Stack(list) ==
  LET shape == <<Len(list)>> \o list[1].shape
  IN  Tensor(shape,
             [idx \in Indices(shape) |-> list[idx[1] + 1].val[Tail(idx)]],
             list[1].is_cuda)

\* ------------------------------------------------------------ IndRNNScript
\* integer model of torch.tanh: odd, monotone, saturating at +-TanhBound
tanh(x) == IF x > TanhBound THEN TanhBound
           ELSE IF x < 0 - TanhBound THEN 0 - TanhBound ELSE x

\* sum over i < n of input[t, b, i] * kernel[i, j]
DotRow(input, kernel, t, b, j) ==
  LET RECURSIVE Acc(_)
      Acc(n) == IF n = 0 THEN 0
                ELSE Acc(n - 1) + input.val[<<t, b, n - 1>>] * kernel.val[<<n - 1, j>>]
  IN  Acc(kernel.shape[1])

\* Wx = input @ kernel + bias
MatmulBias(input, kernel, bias) ==
  LET shape == <<input.shape[1], input.shape[2], kernel.shape[2]>>
  IN  Tensor(shape,
             [idx \in Indices(shape) |->
                DotRow(input, kernel, idx[1], idx[2], idx[3]) + bias.val[<<idx[3]>>]],
             input.is_cuda)

\* torch.tanh(Wx[t] + h[-1] * recurrent_scale): scale broadcasts over the batch
ScriptStep(Wx, t, hPrev, recurrent_scale) ==
  Tensor(hPrev.shape,
         [idx \in Indices(hPrev.shape) |->
            tanh(Wx.val[<<t>> \o idx] + hPrev.val[idx] * recurrent_scale.val[<<idx[2]>>])],
         hPrev.is_cuda)

RECURSIVE ScriptLoop_FromH0(_, _, _, _, _)
\* the for loop with every step computed from h0 instead of h[-1]
ScriptLoop_FromH0(h, Wx, recurrent_scale, t, time_steps) ==
  IF t >= time_steps THEN h
  ELSE ScriptLoop_FromH0(Append(h, ScriptStep(Wx, t, h[1], recurrent_scale)),
                         Wx, recurrent_scale, t + 1, time_steps)

RECURSIVE ScriptLoop(_, _, _, _, _)
\* the for loop: appends one hidden state per time step to the list h
ScriptLoop(h, Wx, recurrent_scale, t, time_steps) ==
  IF t >= time_steps THEN h
  ELSE ScriptLoop(Append(h, ScriptStep(Wx, t, h[Len(h)], recurrent_scale)),
                  Wx, recurrent_scale, t + 1, time_steps)

IndRNNScript(training, input, h0, kernel, recurrent_scale, bias) ==
  LET time_steps == input.shape[1]
      Wx == MatmulBias(input, kernel, bias)
  IN  Stack(ScriptLoop(<<h0>>, Wx, recurrent_scale, 0, time_steps))

\* -------------------------------------------------------------- variables
VARIABLES
  adapter,   \* which program is running: "indrnn", "gru" or "script"
  self,      \* the IndRNN module: sizes, flags and its three parameters
  ctx,       \* autograd context left by the last IndRNNFunction.forward
  layer,     \* the GRULayer: num_units, zoneout, dropout, built, variables
  op,        \* the HasteGru graph op created by the last GRULayer.__call__
  pending,   \* the call the client is about to make, None when it has none
  call,      \* the forward, backward or gradient call executed last
  ret,       \* what that operation raised or returned
  calls      \* the native-op and fallback calls that operation made

vars == <<adapter, self, ctx, layer, op, pending, call, ret, calls>>

NoCall == [fn |-> "none"]
NoRet == [raised |-> "none"]

\* ---------------------------------------------------------- IndRNNFunction
\* the native forward op: the same recurrence as the fallback
LIB_indrnn_forward(training, input, h0, kernel, recurrent_scale, bias) ==
  IndRNNScript(training, input, h0, kernel, recurrent_scale, bias)

\* the native backward op: one opaque gradient per tensor input of forward
LIB_indrnn_backward(saved, grad_h) ==
  [k \in 1..5 |-> [grad_of |-> k]]

\* IndRNNFunction.forward(ctx, training, *inputs)
IndRNNFunction_forward(training, inputs) ==
  LET h == LIB_indrnn_forward(training, inputs[1], inputs[2], inputs[3],
                              inputs[4], inputs[5])
  IN  [raised |-> "none",
       h      |-> h,
       ctx    |-> [saved_tensors |-> <<inputs[1], inputs[3], inputs[4], inputs[5], h>>,
                   training      |-> training],
       calls  |-> <<[fn |-> "LIB.indrnn_forward", training |-> training,
                     input |-> inputs[1], h0 |-> inputs[2]]>>]

\* IndRNNFunction.backward without its training-mode check
IndRNNFunction_backward_Unguarded(c, grad_h) ==
  LET saved0 == Permute(c.saved_tensors[1], <<2, 0, 1>>)
      saved1 == Permute(c.saved_tensors[2], <<1, 0>>)
      saved  == <<saved0, saved1>> \o SubSeq(c.saved_tensors, 3, 5)
      grads  == LIB_indrnn_backward(saved, grad_h)
  IN  [raised |-> "none",
       value  |-> <<None>> \o grads,
       calls  |-> <<[fn |-> "LIB.indrnn_backward", saved |-> saved]>>]

\* IndRNNFunction.backward(ctx, grad_h)
IndRNNFunction_backward(c, grad_h) ==
  IF ~c.training
  THEN [raised |-> "RuntimeError", calls |-> <<>>]
  ELSE LET saved0 == Permute(c.saved_tensors[1], <<2, 0, 1>>)
           saved1 == Permute(c.saved_tensors[2], <<1, 0>>)
           saved  == <<saved0, saved1>> \o SubSeq(c.saved_tensors, 3, 5)
           grads  == LIB_indrnn_backward(saved, grad_h)
       IN  [raised |-> "none",
            value  |-> <<None>> \o grads,
            calls  |-> <<[fn |-> "LIB.indrnn_backward", saved |-> saved]>>]

\* ------------------------------------------------------------------ IndRNN
any(flags) == \E k \in 1..Len(flags) : flags[k]
all(flags) == \A k \in 1..Len(flags) : flags[k]

\* IndRNN._impl without the device-consistency check: anything that is not
\* all-CUDA goes to the fallback
IndRNN_impl_NoMixedCheck(me, input, state) ==
  LET tensors == <<input, me.kernel, me.recurrent_scale, me.bias>>
      is_cuda == [k \in 1..4 |-> tensors[k].is_cuda]
      inputs  == <<input, state, me.kernel, me.recurrent_scale, me.bias>>
  IN  IF all(is_cuda)
      THEN IndRNNFunction_forward(me.training, inputs)
      ELSE [raised |-> "none",
            h      |-> IndRNNScript(me.training, inputs[1], inputs[2], inputs[3],
                                    inputs[4], inputs[5]),
            ctx    |-> None,
            calls  |-> <<[fn |-> "IndRNNScript", training |-> me.training,
                          input |-> inputs[1], h0 |-> inputs[2]]>>]

\* IndRNN._impl(self, input, state)
IndRNN_impl(me, input, state) ==
  LET tensors == <<input, me.kernel, me.recurrent_scale, me.bias>>
      is_cuda == [k \in 1..4 |-> tensors[k].is_cuda]
      inputs  == <<input, state, me.kernel, me.recurrent_scale, me.bias>>
  IN  IF any(is_cuda) /\ ~all(is_cuda)
      THEN [raised |-> "ValueError", ctx |-> None, calls |-> <<>>]
      ELSE IF all(is_cuda)
      THEN IndRNNFunction_forward(me.training, inputs)
      ELSE [raised |-> "none",
            h      |-> IndRNNScript(me.training, inputs[1], inputs[2], inputs[3],
                                    inputs[4], inputs[5]),
            ctx    |-> None,
            calls  |-> <<[fn |-> "IndRNNScript", training |-> me.training,
                          input |-> inputs[1], h0 |-> inputs[2]]>>]

\* h[[lengths, cols]]: row b of the result is h[lengths[b], b]; a negative
\* index counts from the end, one outside -n..n-1 raises IndexError
IndexOk(n, i) == (0 - n) <= i /\ i < n
PyIndex(n, i) == IF i < 0 THEN i + n ELSE i

GatherRows(h, lengths) ==
  LET shape == Tail(h.shape)
  IN  Tensor(shape,
             [idx \in Indices(shape) |->
                h.val[<<PyIndex(h.shape[1], lengths.val[<<idx[1]>>])>> \o idx]],
             h.is_cuda)

\* the state taken from the last step whatever the lengths
FinalState_IgnoresLengths(h, lengths) ==
  Unsqueeze0(Index0(h, PyIndex(h.shape[1], 0 - 1)))

\* the state returned by forward, lines 100-104
FinalState(h, lengths) ==
  IF lengths # None
  THEN Unsqueeze0(GatherRows(h, lengths))
  ELSE Unsqueeze0(Index0(h, PyIndex(h.shape[1], 0 - 1)))

\* the initial hidden state used by forward, lines 91-96
InitialState(me, input, state) ==
  IF state = None
  THEN Zeros(<<input.shape[2], me.hidden_size>>, input.is_cuda)
  ELSE Index0(state, 0)

\* the input as _impl receives it, lines 88-89
TimeMajor(me, input) ==
  IF me.batch_first THEN Permute(input, <<1, 0, 2>>) ELSE input

\* the output without the permutation back to batch-first
Output_NotPermutedBack(me, h) == SliceFrom1(h)

\* the output as forward returns it, lines 106-108
Output(me, h) ==
  IF me.batch_first THEN Permute(SliceFrom1(h), <<1, 0, 2>>) ELSE SliceFrom1(h)

\* IndRNN.forward without the shape check on the state
IndRNN_forward_NoShapeCheck(me, input0, state, lengths) ==
  LET input == TimeMajor(me, input0)
      h0 == InitialState(me, input, state)
      r  == IndRNN_impl(me, input, h0)
  IN  IF r.raised # "none" THEN r
      ELSE IF lengths # None
              /\ \E b \in 0..(lengths.shape[1] - 1) :
                   ~IndexOk(r.h.shape[1], lengths.val[<<b>>])
      THEN [raised |-> "IndexError", ctx |-> None, calls |-> r.calls]
      ELSE [raised |-> "none",
            h0     |-> h0,
            h      |-> r.h,
            output |-> Output(me, r.h),
            state  |-> FinalState(r.h, lengths),
            ctx    |-> r.ctx,
            calls  |-> r.calls]

\* IndRNN.forward(self, input, state, lengths)
IndRNN_forward(me, input0, state, lengths) ==
  LET input == TimeMajor(me, input0)
  IN  IF state # None /\ state.shape[1] # 1
      THEN [raised |-> "ValueError", ctx |-> None, calls |-> <<>>]
      ELSE
        LET h0 == InitialState(me, input, state)
            r  == IndRNN_impl(me, input, h0)
        IN  IF r.raised # "none" THEN r
            ELSE IF lengths # None
                    /\ \E b \in 0..(lengths.shape[1] - 1) :
                         ~IndexOk(r.h.shape[1], lengths.val[<<b>>])
            THEN [raised |-> "IndexError", ctx |-> None, calls |-> r.calls]
            ELSE [raised |-> "none",
                  h0     |-> h0,
                  h      |-> r.h,
                  output |-> Output(me, r.h),
                  state  |-> FinalState(r.h, lengths),
                  ctx    |-> r.ctx,
                  calls  |-> r.calls]

\* what the caller sees of an operation's result
Returned(r) == [f \in (DOMAIN r) \ {"ctx", "calls"} |-> r[f]]

\* ------------------------------------------------------- IndRNN: the machine
\* IndRNN.__init__ and reset_parameters: parameters are created on the GPU,
\* kernel and recurrent_scale are drawn at random, bias is zero
IndRNN_init(batch_first, seed) ==
  [input_size      |-> InputSize,
   hidden_size     |-> HiddenSize,
   batch_first     |-> batch_first,
   training        |-> TRUE,
   kernel          |-> Pattern(<<InputSize, HiddenSize>>, seed, 0 - 1, 1, TRUE),
   recurrent_scale |-> Pattern(<<HiddenSize>>, seed + 1, 0 - 1, 1, TRUE),
   bias            |-> Zeros(<<HiddenSize>>, TRUE)]

\* the inputs enumerated for forward, in the layout the module expects
ForwardInputs(me) ==
  {TimeMajor(me, Pattern(<<T, B, me.input_size>>, seed, 0, 1, cuda)) :
     T \in 0..MaxTime, B \in 1..MaxBatch, seed \in Seeds, cuda \in BOOLEAN}

\* the initial states enumerated for an input: none, a well-shaped one per
\* seed, and one with a leading dimension of 2
ForwardStates(me, input) ==
  LET B == TimeMajor(me, input).shape[2]
  IN  {None}
      \cup {Pattern(<<1, B, me.hidden_size>>, seed, 0 - 1, 1, input.is_cuda) : seed \in Seeds}
      \cup {Pattern(<<2, B, me.hidden_size>>, 0, 0 - 1, 1, input.is_cuda)}

\* the lengths enumerated for an input: none, in-range ramps, -1, and T+1
ForwardLengths(me, input) ==
  LET T == TimeMajor(me, input).shape[1]
      B == TimeMajor(me, input).shape[2]
      vec(f(_)) == Tensor(<<B>>, [idx \in Indices(<<B>>) |-> f(idx[1])], FALSE)
      ramp(k) == LET f(b) == (k + b) % (T + 1) IN vec(f)
      const(k) == LET f(b) == k IN vec(f)
  IN  {None} \cup {ramp(k) : k \in 0..T} \cup {const(0 - 1), const(T + 1)}

InitIndRNN ==
  /\ adapter = "indrnn"
  /\ self \in {IndRNN_init(bf, seed) : bf \in BOOLEAN, seed \in Seeds}
  /\ \E input \in ForwardInputs(self) :
     \E state \in ForwardStates(self, input) :
     \E lengths \in ForwardLengths(self, input) :
       pending = [fn |-> "forward", input |-> input, state |-> state,
                  lengths |-> lengths, fed_back |-> FALSE]
  /\ layer = None
  /\ ctx = None
  /\ op = None
  /\ call = NoCall
  /\ ret = NoRet
  /\ calls = <<>>

\* the client's next call: it feeds a returned state back, once, with the
\* same input and lengths
FollowUp(c, r) ==
  IF r.raised = "none" /\ ~c.fed_back
  THEN [c EXCEPT !.state = r.state, !.fed_back = TRUE]
  ELSE None

Forward ==
  /\ adapter = "indrnn"
  /\ pending # None
  /\ LET r == IndRNN_forward(self, pending.input, pending.state, pending.lengths)
     IN  /\ call' = pending
         /\ ret' = Returned(r)
         /\ ctx' = r.ctx
         /\ calls' = r.calls
         /\ pending' = FollowUp(pending, r)
  /\ UNCHANGED <<adapter, self, layer, op>>

\* loss.backward() on the tensor the last forward returned
Backward ==
  /\ adapter = "indrnn"
  /\ ctx # None
  /\ \E seed \in Seeds :
       LET grad_h == Pattern(ret.h.shape, seed, 0 - 1, 1, TRUE)
           r == IndRNNFunction_backward(ctx, grad_h)
       IN  /\ call' = [fn |-> "backward", ctx |-> ctx, grad_h |-> grad_h]
           /\ ret' = Returned(r)
           /\ calls' = r.calls
  /\ ctx' = None
  /\ UNCHANGED <<adapter, self, layer, op, pending>>

\* nn.Module.train(mode) / eval(): flips the flag the next forward reads;
\* tensors already returned keep the context they were computed with
Train ==
  /\ adapter = "indrnn"
  /\ \E mode \in BOOLEAN :
       self' = [self EXCEPT !.training = mode]
  /\ UNCHANGED <<adapter, layer, op, pending, call, ret, ctx, calls>>

\* moving one parameter to the CPU or the GPU; the client drops the result
\* of the previous call
MoveParameter ==
  /\ adapter = "indrnn"
  /\ \E p \in {"kernel", "recurrent_scale", "bias"}, cuda \in BOOLEAN :
       self' = [self EXCEPT ![p].is_cuda = cuda]
  /\ call' = NoCall
  /\ ret' = NoRet
  /\ ctx' = None
  /\ calls' = <<>>
  /\ UNCHANGED <<adapter, layer, op, pending>>

NextIndRNN == Forward \/ Backward \/ Train \/ MoveParameter

SpecIndRNN == InitIndRNN /\ [][NextIndRNN]_vars

\* ------------------------------------------------------------ gru_gradient
\* a graph tensor known by name and shape only
Sym(name, shape) == [name |-> name, shape |-> shape, axes |-> [k \in 1..Len(shape) |-> k - 1]]

\* tf.transpose(x, perm) with a 0-based perm: result dim k is source dim perm[k]
transpose(x, perm) ==
  [name  |-> x.name,
   shape |-> [k \in 1..Len(perm) |-> x.shape[perm[k] + 1]],
   axes  |-> [k \in 1..Len(perm) |-> x.axes[perm[k] + 1]]]

\* the native gradient op: five opaque outputs, in the order the op declares
LIB_haste_gru_grad(x, W, R, bx, br, h, v, dh_new, zoneout_mask) ==
  <<[name |-> "dx"], [name |-> "dw"], [name |-> "dr"], [name |-> "dbx"], [name |-> "dbr"]>>

\* gru_gradient with x transposed by [1, 0, 2] and dW, dR returned swapped
gru_gradient_Shuffled(o, grads) ==
  IF ~o.training
  THEN [raised |-> "ValueError", calls |-> <<>>]
  ELSE LET x == transpose(o.inputs[1], <<1, 0, 2>>)
           W == transpose(o.inputs[2], <<1, 0>>)
           R == transpose(o.inputs[3], <<1, 0>>)
           args == <<x, W, R, o.inputs[4], o.inputs[5], o.outputs[1], o.outputs[2],
                     grads[1], o.inputs[6]>>
           d == LIB_haste_gru_grad(x, W, R, o.inputs[4], o.inputs[5], o.outputs[1],
                                   o.outputs[2], grads[1], o.inputs[6])
       IN  [raised |-> "none",
            value  |-> <<d[1], d[3], d[2], d[4], d[5], None>>,
            calls  |-> <<[fn |-> "LIB.haste_gru_grad", args |-> args, outputs |-> d]>>]

\* gru_gradient(op, *grads)
gru_gradient(o, grads) ==
  LET training == o.training
  IN  IF ~training
      THEN [raised |-> "ValueError", calls |-> <<>>]
      ELSE LET x0 == o.inputs[1]
               W0 == o.inputs[2]
               R0 == o.inputs[3]
               bx == o.inputs[4]
               br == o.inputs[5]
               zoneout_mask == o.inputs[6]
               h == o.outputs[1]
               v == o.outputs[2]
               x == transpose(x0, <<2, 0, 1>>)
               W == transpose(W0, <<1, 0>>)
               R == transpose(R0, <<1, 0>>)
               args == <<x, W, R, bx, br, h, v, grads[1], zoneout_mask>>
               d == LIB_haste_gru_grad(x, W, R, bx, br, h, v, grads[1], zoneout_mask)
           IN  [raised |-> "none",
                value  |-> <<d[1], d[2], d[3], d[4], d[5], None>>,
                calls  |-> <<[fn |-> "LIB.haste_gru_grad", args |-> args, outputs |-> d]>>]

\* ---------------------------------------------------------------- GRULayer
\* GRULayer.__init__; zoneout is a rate in units of 1/UnitScale
GRULayer_init(num_units, zoneout) ==
  [num_units        |-> num_units,
   dropout          |-> 0,
   zoneout          |-> zoneout,
   kernel           |-> None,
   recurrent_kernel |-> None,
   bias             |-> None,
   recurrent_bias   |-> None,
   built            |-> FALSE]

\* GRULayer.build(shape)
build(me, shape) ==
  IF me.built THEN me
  ELSE LET num_units == me.num_units
           input_size == shape[Len(shape)]
       IN  [me EXCEPT
              !.kernel = Sym("kernel", <<input_size, 3 * num_units>>),
              !.recurrent_kernel = Sym("recurrent_kernel", <<num_units, 3 * num_units>>),
              !.bias = Sym("bias", <<3 * num_units>>),
              !.recurrent_bias = Sym("recurrent_bias", <<3 * num_units>>),
              !.built = TRUE]

\* tf.floor(1.0 + zoneout + u): the mask with the sign of zoneout flipped
FloorMask_SignFlipped(zoneout, u) ==
  Tensor(u.shape,
         [idx \in Indices(u.shape) |-> (UnitScale + zoneout + u.val[idx]) \div UnitScale],
         FALSE)

\* tf.floor(1.0 - zoneout + u) entrywise, zoneout and u in units of 1/UnitScale
FloorMask(zoneout, u) ==
  Tensor(u.shape,
         [idx \in Indices(u.shape) |-> (UnitScale - zoneout + u.val[idx]) \div UnitScale],
         FALSE)

\* the zoneout mask handed to the native op, lines 129-136
ZoneoutMask(me, time_steps, batch_size, u) ==
  IF me.zoneout # 0 THEN FloorMask(me.zoneout, u) ELSE Zeros(<<0, 0, 0>>, FALSE)

\* the native forward op: time_steps + 1 hidden states, every entry an
\* opaque value of its own, and the opaque activation cache v
LIB_haste_gru(x, W, R, bx, br, zoneout_mask, training, zoneout_prob) ==
  LET shape == <<x.shape[1] + 1, x.shape[2], R.shape[1]>>
  IN  <<Tensor(shape, [idx \in Indices(shape) |-> 100 * idx[1] + 10 * idx[2] + idx[3]], TRUE),
        Sym("v", <<x.shape[1], x.shape[2], 4 * R.shape[1]>>)>>

\* tf.gather_nd(result, stack([indices, range(batch_size)], axis=-1))
gather_nd(result, indices, batch_size) ==
  LET shape == <<batch_size>> \o Tail(Tail(result.shape))
  IN  Tensor(shape,
             [idx \in Indices(shape) |-> result.val[<<indices.val[<<idx[1]>>], idx[1]>> \o Tail(idx)]],
             result.is_cuda)

\* the state gathered at sequence_length - 1, as for an output without the
\* leading initial row
GruState_LengthMinusOne(result, sequence_length, batch_size) ==
  IF sequence_length # None
  THEN gather_nd(result,
                 [sequence_length EXCEPT
                    !.val = [idx \in DOMAIN sequence_length.val |->
                               IF sequence_length.val[idx] = 0 THEN 0
                               ELSE sequence_length.val[idx] - 1]],
                 batch_size)
  ELSE Index0(result, PyIndex(result.shape[1], 0 - 1))

\* the state returned by __call__, lines 149-155
GruState(result, sequence_length, batch_size) ==
  IF sequence_length # None
  THEN gather_nd(result, sequence_length, batch_size)
  ELSE Index0(result, PyIndex(result.shape[1], 0 - 1))

\* GRULayer.__call__(inputs, sequence_length, training); u is the draw of
\* tf.random_uniform
GRULayer_call(me, inputs, sequence_length, training, u) ==
  LET built == build(me, inputs.shape)
      time_steps == inputs.shape[1]
      batch_size == inputs.shape[2]
      zoneout_mask == ZoneoutMask(built, time_steps, batch_size, u)
      recurrent_kernel == [built.recurrent_kernel EXCEPT !.name = "dropout(recurrent_kernel)"]
      ins == <<inputs, built.kernel, recurrent_kernel, built.bias,
               built.recurrent_bias, zoneout_mask>>
      outs == LIB_haste_gru(ins[1], ins[2], ins[3], ins[4], ins[5], ins[6],
                            training, built.zoneout)
      result == outs[1]
  IN  [raised |-> "none",
       layer  |-> built,
       op     |-> [type |-> "HasteGru", inputs |-> ins, outputs |-> outs,
                   training |-> training, zoneout_prob |-> built.zoneout],
       value  |-> <<SliceFrom1(result), GruState(result, sequence_length, batch_size)>>,
       calls  |-> <<[fn |-> "LIB.haste_gru", training |-> training]>>]

\* ------------------------------------------------------ GRULayer: the machine
\* the calls enumerated: time-major inputs, sequence lengths in 0..time_steps
\* or none, either training flag, one uniform draw per seed
GruCallsOf(me, T, B) ==
  LET vec(f(_)) == Tensor(<<B>>, [idx \in Indices(<<B>>) |-> f(idx[1])], FALSE)
      ramp(k) == LET f(b) == (k + b) % (T + 1) IN vec(f)
  IN  {[fn |-> "__call__",
        inputs |-> Sym("inputs", <<T, B, InputSize>>),
        sequence_length |-> sl,
        training |-> tr,
        u |-> Pattern(<<T, B, me.num_units>>, seed, 0, UnitScale - 1, FALSE),
        again |-> FALSE] :
         sl \in {None} \cup {ramp(k) : k \in 0..T}, tr \in BOOLEAN, seed \in Seeds}

GruCalls(me) == UNION {GruCallsOf(me, T, B) : T \in 0..MaxTime, B \in 1..MaxBatch}

InitGRU ==
  /\ adapter = "gru"
  /\ layer \in {GRULayer_init(HiddenSize, z) : z \in 0..(UnitScale + 1)}
  /\ pending \in GruCalls(layer)
  /\ self = None
  /\ ctx = None
  /\ op = None
  /\ call = NoCall
  /\ ret = NoRet
  /\ calls = <<>>

\* the layer is called a second time with the same arguments
CallAgain(c) == IF c.again THEN None ELSE [c EXCEPT !.again = TRUE]

Call ==
  /\ adapter = "gru"
  /\ pending # None
  /\ LET r == GRULayer_call(layer, pending.inputs, pending.sequence_length,
                            pending.training, pending.u)
     IN  /\ call' = pending
         /\ ret' = [raised |-> r.raised, value |-> r.value]
         /\ layer' = r.layer
         /\ op' = r.op
         /\ calls' = r.calls
  /\ pending' = CallAgain(pending)
  /\ UNCHANGED <<adapter, self, ctx>>

\* tf.gradients through the op the last call created
Gradient ==
  /\ adapter = "gru"
  /\ op # None
  /\ LET grads == <<Sym("dh", op.outputs[1].shape)>>
         r == gru_gradient(op, grads)
     IN  /\ call' = [fn |-> "gru_gradient", op |-> op, grads |-> grads]
         /\ ret' = [f \in (DOMAIN r) \ {"calls"} |-> r[f]]
         /\ calls' = r.calls
  /\ op' = None
  /\ UNCHANGED <<adapter, self, ctx, layer, pending>>

NextGRU == Call \/ Gradient

SpecGRU == InitGRU /\ [][NextGRU]_vars

\* ------------------------------------------------- IndRNNScript on its own
\* the value patterns enumerated per argument of the fallback scan
ScriptSeeds == {0, 1, 2}

ScriptCalls ==
  {[fn              |-> "IndRNNScript",
    training        |-> tr,
    input           |-> Pattern(<<T, B, I>>, sx, 0 - 1, 1, FALSE),
    h0              |-> Pattern(<<B, HiddenSize>>, sh, 0 - 1, 1, FALSE),
    kernel          |-> Pattern(<<I, HiddenSize>>, sk, 0 - 1, 1, FALSE),
    recurrent_scale |-> Pattern(<<HiddenSize>>, sr, 0 - 1, 1, FALSE),
    bias            |-> Pattern(<<HiddenSize>>, sb, 0 - 1, 1, FALSE)] :
     tr \in BOOLEAN, T \in 0..MaxTime, B \in 1..MaxBatch, I \in 1..InputSize,
     sx \in ScriptSeeds, sh \in ScriptSeeds, sk \in ScriptSeeds,
     sr \in ScriptSeeds, sb \in ScriptSeeds}

InitScript ==
  /\ adapter = "script"
  /\ pending \in ScriptCalls
  /\ self = None
  /\ layer = None
  /\ ctx = None
  /\ op = None
  /\ call = NoCall
  /\ ret = NoRet
  /\ calls = <<>>

Script ==
  /\ adapter = "script"
  /\ pending # None
  /\ call' = pending
  /\ ret' = [raised |-> "none",
             h |-> IndRNNScript(pending.training, pending.input, pending.h0,
                                pending.kernel, pending.recurrent_scale, pending.bias)]
  /\ pending' = None
  /\ UNCHANGED <<adapter, self, layer, ctx, op, calls>>

SpecScript == InitScript /\ [][Script]_vars

\* ------------------------------------------------------- both adapters
Init == InitIndRNN \/ InitGRU

Next == NextIndRNN \/ NextGRU

Spec == Init /\ [][Next]_vars

\* ================================================================== claims
\* number of calls the last operation made to fn
CallsTo(fn) == Cardinality({k \in 1..Len(calls) : calls[k].fn = fn})

\* the forward call executed last got past the shape check on the state
PastShapeCheck ==
  call.fn = "forward" /\ (call.state = None \/ call.state.shape[1] = 1)

\* C1: once forward reaches _impl, the native op is called exactly when
\* input, kernel, recurrent_scale and bias are all CUDA tensors, the fallback
\* IndRNNScript exactly when none of them is, and a mixed placement raises
\* ValueError with neither of the two called.
C1_ImplDispatch ==
  PastShapeCheck =>
    LET n == Cardinality({f \in {"input", "kernel", "recurrent_scale", "bias"} :
                            IF f = "input" THEN call.input.is_cuda ELSE self[f].is_cuda})
    IN  /\ (n = 4) <=> (CallsTo("LIB.indrnn_forward") = 1)
        /\ (n = 0) <=> (CallsTo("IndRNNScript") = 1)
        /\ CallsTo("LIB.indrnn_forward") + CallsTo("IndRNNScript") = Len(calls)
        /\ Len(calls) <= 1
        /\ (0 < n /\ n < 4) => (ret.raised = "ValueError" /\ calls = <<>>)
        /\ (n = 0 \/ n = 4) => ret.raised # "ValueError"

\* a forward with a CUDA input and a CPU bias was rejected
C1_Witness ==
  /\ PastShapeCheck
  /\ call.input.is_cuda /\ self.kernel.is_cuda /\ ~self.bias.is_cuda
  /\ ret.raised = "ValueError"

\* C2: a backward through a forward pass run with training=False raises
\* (RuntimeError in IndRNNFunction.backward, ValueError in gru_gradient)
\* without calling the native gradient op; through one run with
\* training=True it calls the native gradient op exactly once.  The context
\* and the op carry the flag the forward pass was run with.
C2_TrainingGuard ==
  /\ (call.fn = "forward" /\ ctx # None) =>
       (CallsTo("LIB.indrnn_forward") = 1 /\ ctx.training = calls[1].training)
  /\ call.fn = "backward" =>
       IF call.ctx.training
       THEN ret.raised = "none" /\ Len(calls) = 1 /\ CallsTo("LIB.indrnn_backward") = 1
       ELSE ret.raised = "RuntimeError" /\ calls = <<>>
  /\ call.fn = "__call__" => op.training = call.training
  /\ call.fn = "gru_gradient" =>
       IF call.op.training
       THEN ret.raised = "none" /\ Len(calls) = 1 /\ CallsTo("LIB.haste_gru_grad") = 1
       ELSE ret.raised = "ValueError" /\ calls = <<>>

\* a backward through an inference-mode forward was refused although the
\* module has been switched back to training mode since
C2_Witness ==
  /\ call.fn = "backward"
  /\ ~call.ctx.training
  /\ self.training
  /\ ret.raised = "RuntimeError"

\* the batch size of the input of the forward call executed last
BatchOf(input) == IF self.batch_first THEN input.shape[1] ELSE input.shape[2]
\* its number of time steps
TimeOf(input) == IF self.batch_first THEN input.shape[2] ELSE input.shape[1]

\* C3: a state whose leading dimension is not 1 makes forward raise
\* ValueError before any delegate is called; otherwise h0 is state[0], or,
\* without a state, zeros of shape [batch, hidden_size].
C3_StateCheck ==
  call.fn = "forward" =>
    /\ (call.state # None /\ call.state.shape[1] # 1) =>
         (ret.raised = "ValueError" /\ calls = <<>>)
    /\ (PastShapeCheck /\ Len(calls) = 1) =>
         LET h0 == calls[1].h0
             B == BatchOf(call.input)
         IN  /\ h0.shape = <<B, self.hidden_size>>
             /\ \A b \in 0..(B - 1), j \in 0..(self.hidden_size - 1) :
                  h0.val[<<b, j>>] =
                    IF call.state = None THEN 0 ELSE call.state.val[<<0, b, j>>]

\* a batch-first forward without a state, on an input whose batch and time
\* sizes differ, reached its delegate
C3_Witness ==
  /\ call.fn = "forward" /\ call.state = None /\ self.batch_first
  /\ call.input.shape[1] # call.input.shape[2]
  /\ Len(calls) = 1

\* a forward with a state of leading dimension 2 was rejected
C3_WitnessBad ==
  /\ call.fn = "forward" /\ call.state # None /\ call.state.shape[1] = 2
  /\ ret.raised = "ValueError"

\* Wx[t, b, j] written out: sum over i of input[t, b, i] * kernel[i, j], plus bias[j]
WxAt(c, t, b, j) ==
  LET RECURSIVE Sum(_)
      Sum(S) == IF S = {} THEN 0
                ELSE LET i == CHOOSE x \in S : TRUE
                     IN  c.input.val[<<t, b, i>>] * c.kernel.val[<<i, j>>] + Sum(S \ {i})
  IN  Sum(0..(c.input.shape[3] - 1)) + c.bias.val[<<j>>]

\* C4: IndRNNScript returns T+1 hidden states for T time steps, the first is
\* h0, and every later one is tanh(Wx[t] + h[t] * recurrent_scale) entry by
\* entry: unit j of batch row b at step t+1 is computed from that same unit
\* at step t and the input of step t alone, whatever the training flag.
C4_SequentialScan ==
  call.fn = "IndRNNScript" =>
    LET T == call.input.shape[1]
        B == call.input.shape[2]
        H == call.kernel.shape[2]
        h == ret.h
    IN  /\ h.shape = <<T + 1, B, H>>
        /\ \A b \in 0..(B - 1), j \in 0..(H - 1) :
             /\ h.val[<<0, b, j>>] = call.h0.val[<<b, j>>]
             /\ \A t \in 0..(T - 1) :
                  h.val[<<t + 1, b, j>>] =
                    tanh(WxAt(call, t, b, j)
                         + h.val[<<t, b, j>>] * call.recurrent_scale.val[<<j>>])

\* a scan over at least two steps whose units have different recurrent
\* scales and whose second hidden state differs from the first and from h0
C4_Witness ==
  /\ call.fn = "IndRNNScript"
  /\ call.input.shape[1] >= 2
  /\ call.recurrent_scale.val[<<0>>] # call.recurrent_scale.val[<<1>>]
  /\ \E b \in 0..(call.input.shape[2] - 1), j \in 0..(call.kernel.shape[2] - 1) :
       /\ ret.h.val[<<2, b, j>>] # ret.h.val[<<1, b, j>>]
       /\ ret.h.val[<<1, b, j>>] # ret.h.val[<<0, b, j>>]
       /\ call.recurrent_scale.val[<<j>>] # 0

C6_ZoneoutMask ==
  call.fn = "__call__" =>
    LET mask == op.inputs[6]
    IN  /\ layer.zoneout = 0 => (mask.shape = <<0, 0, 0>> /\ DOMAIN mask.val = {})
        /\ (0 < layer.zoneout /\ layer.zoneout <= UnitScale) =>
             /\ mask.shape = <<call.inputs.shape[1], call.inputs.shape[2], layer.num_units>>
             /\ DOMAIN mask.val = Indices(mask.shape)
             /\ \A idx \in DOMAIN mask.val : mask.val[idx] \in {0, 1}

\* a call with a zoneout rate strictly between 0 and 1 whose mask holds both
\* a 0 and a 1
C6_Witness ==
  /\ call.fn = "__call__"
  /\ 0 < layer.zoneout /\ layer.zoneout < UnitScale
  /\ \E idx \in DOMAIN op.inputs[6].val : op.inputs[6].val[idx] = 0
  /\ \E idx \in DOMAIN op.inputs[6].val : op.inputs[6].val[idx] = 1

\* C7: a successful gru_gradient calls LIB.haste_gru_grad once, on x
\* transposed by [2, 0, 1], W and R transposed by [1, 0], bx, br, h, v, the
\* incoming gradient and the zoneout mask, and returns that call's five
\* outputs in order followed by None: one entry per op input.
C7_GruGradient ==
  (call.fn = "gru_gradient" /\ ret.raised = "none") =>
    LET ins == call.op.inputs
        outs == call.op.outputs
        swapped(m) == <<m.shape[2], m.shape[1]>>
    IN  /\ Len(ins) = 6 /\ Len(outs) = 2
        /\ Len(calls) = 1
        /\ calls[1].fn = "LIB.haste_gru_grad"
        /\ LET a == calls[1].args
           IN  /\ Len(a) = 9
               /\ a[1].name = ins[1].name /\ a[1].axes = <<2, 0, 1>>
               /\ a[1].shape = <<ins[1].shape[3], ins[1].shape[1], ins[1].shape[2]>>
               /\ a[2].name = ins[2].name /\ a[2].axes = <<1, 0>>
               /\ a[2].shape = swapped(ins[2])
               /\ a[3].name = ins[3].name /\ a[3].axes = <<1, 0>>
               /\ a[3].shape = swapped(ins[3])
               /\ a[4] = ins[4] /\ a[5] = ins[5]
               /\ a[6] = outs[1] /\ a[7] = outs[2]
               /\ a[8] = call.grads[1]
               /\ a[9] = ins[6]
        /\ Len(ret.value) = Len(ins)
        /\ \A k \in 1..5 : ret.value[k] = calls[1].outputs[k]
        /\ ret.value[6] = None

\* a gradient was computed through an op run in training mode on an input
\* whose three dimensions all differ
C7_Witness ==
  /\ call.fn = "gru_gradient" /\ ret.raised = "none"
  /\ call.op.inputs[1].shape[1] # call.op.inputs[1].shape[2]
  /\ call.op.inputs[1].shape[1] >= 1

\* entry [t, b, j] of the output forward returned, in time-major terms
OutAt(t, b, j) ==
  IF self.batch_first THEN ret.output.val[<<b, t, j>>] ELSE ret.output.val[<<t, b, j>>]

\* C8: after a successful forward over T steps, with h the T+1 hidden states
\* of _impl: h[0] is h0, the output is h[1:], the state has leading dimension
\* 1 and row b holds h[lengths[b], b] (output[lengths[b]-1, b] for a length
\* in 1..T, h0[b] for length 0), or h[T, b] without lengths; a state fed
\* back to forward passes the shape check.
C8_OutputAndState ==
  (call.fn = "forward" /\ ret.raised = "none") =>
    LET T == TimeOf(call.input)
        B == BatchOf(call.input)
        H == self.hidden_size
        h == ret.h
        L(b) == call.lengths.val[<<b>>]
    IN  /\ h.shape = <<T + 1, B, H>>
        /\ ret.output.shape = IF self.batch_first THEN <<B, T, H>> ELSE <<T, B, H>>
        /\ DOMAIN ret.output.val = Indices(ret.output.shape)
        /\ ret.state.shape = <<1, B, H>>
        /\ call.fed_back => call.state.shape[1] = 1
        /\ \A b \in 0..(B - 1), j \in 0..(H - 1) :
             /\ h.val[<<0, b, j>>] = calls[1].h0.val[<<b, j>>]
             /\ \A t \in 0..(T - 1) : OutAt(t, b, j) = h.val[<<t + 1, b, j>>]
             /\ IF call.lengths = None
                THEN ret.state.val[<<0, b, j>>] = h.val[<<T, b, j>>]
                ELSE /\ L(b) >= 0 => ret.state.val[<<0, b, j>>] = h.val[<<L(b), b, j>>]
                     /\ L(b) < 0 => ret.state.val[<<0, b, j>>] = h.val[<<L(b) + T + 1, b, j>>]
                     /\ (1 <= L(b) /\ L(b) <= T) =>
                          ret.state.val[<<0, b, j>>] = OutAt(L(b) - 1, b, j)
                     /\ L(b) = 0 => ret.state.val[<<0, b, j>>] = calls[1].h0.val[<<b, j>>]

\* a forward fed with the state an earlier forward returned succeeded, with
\* lengths that are 0 for one sequence and positive for another
C8_Witness ==
  /\ call.fn = "forward" /\ ret.raised = "none"
  /\ call.fed_back
  /\ call.lengths # None
  /\ \E b \in 0..(BatchOf(call.input) - 1) : call.lengths.val[<<b>>] = 0
  /\ \E b \in 0..(BatchOf(call.input) - 1) : call.lengths.val[<<b>>] >= 1
  /\ \E b \in 0..(BatchOf(call.input) - 1), j \in 0..(self.hidden_size - 1) :
       ret.h.val[<<0, b, j>>] # ret.h.val[<<TimeOf(call.input), b, j>>]

\* C9: with batch_first, the delegate receives the input permuted to
\* time-major, output[b, t] is the hidden state h[t+1, b] and the output has
\* the batch and time axes in the order of the input; the state is
\* [1, batch, hidden_size] with and without batch_first.
C9_BatchFirst ==
  (call.fn = "forward" /\ ret.raised = "none") =>
    LET B == BatchOf(call.input)
        T == TimeOf(call.input)
        H == self.hidden_size
        x == calls[1].input
    IN  /\ ret.state.shape = <<1, B, H>>
        /\ self.batch_first =>
             /\ B = call.input.shape[1] /\ T = call.input.shape[2]
             /\ x.shape = <<T, B, call.input.shape[3]>>
             /\ \A t \in 0..(T - 1), b \in 0..(B - 1), i \in 0..(x.shape[3] - 1) :
                  x.val[<<t, b, i>>] = call.input.val[<<b, t, i>>]
             /\ ret.h.shape = <<T + 1, B, H>>
             /\ ret.output.shape = <<B, T, H>>
             /\ \A t \in 0..(T - 1), b \in 0..(B - 1), j \in 0..(H - 1) :
                  ret.output.val[<<b, t, j>>] = ret.h.val[<<t + 1, b, j>>]

\* a successful batch-first forward on an input whose batch and time sizes
\* differ and whose hidden states change over time
C9_Witness ==
  /\ call.fn = "forward" /\ ret.raised = "none"
  /\ self.batch_first
  /\ call.input.shape[1] # call.input.shape[2]
  /\ call.input.shape[2] >= 2
  /\ \E b \in 0..(call.input.shape[1] - 1), j \in 0..(self.hidden_size - 1) :
       ret.output.val[<<b, 0, j>>] # ret.output.val[<<b, 1, j>>]

====
